---- MODULE Spec2Model ----
(***************************************************************************)
(* A model of kzam: the sync planner (ArchiveManager.get_new), the store   *)
(* conversions it reads through (DbManager / ArchiveDetails.from_row) and  *)
(* the mirror downloader (Downloader.download_archive / try_mirror).       *)
(***************************************************************************)
EXTENDS Integers, Sequences, FiniteSets, TLC

\* ------------------------------------------------------------------ bounds
MaxSubs    == 1   \* length of config.archives
MaxRows    == 3   \* rows of the archives table
MaxEntries == 2   \* entries of a catalog response
MaxBatch == 2     \* entries handed to one download_all call
MaxTime    == 2   \* distinct `updated` timestamps 1..MaxTime
MaxMirrors == 3   \* mirrors of a manifest
MaxPrio    == 2   \* mirror priorities 1..MaxPrio
TotalChunks == 2  \* chunks iter_content yields for a complete body
DiskFree   == 2   \* psutil.disk_usage(archive_dir).free, in chunks

\* ------------------------------------------------------------- data model
\* Python's None for an optional string field (flavour TEXT may be NULL).
NoFlavour == "<None>"

\* Language codes in lexicographic order: sorted() of a set of codes lists
\* them in this order.
LangOrder == <<"eng", "fra">>

Range(s) == {s[i] : i \in DOMAIN s}

BSeq(S, n) == UNION {[1..k -> S] : k \in 0..n}

\* ArchiveReference values (name, language frozenset, flavour).
Refs ==
  { [name |-> "wiki", language |-> {"eng"},        flavour |-> "maxi"],
    [name |-> "wiki", language |-> {"eng", "fra"}, flavour |-> NoFlavour] }

Times == 1..MaxTime

\* ",".join(sorted(ref.language)): the text stored in the language column,
\* kept as the list of codes between the commas.
JoinSorted(language) == SelectSeq(LangOrder, LAMBDA c : c \in language)

\* frozenset(text.split(",")): "".split(",") is [""], never the empty list.
SplitComma(text) == IF text = <<>> THEN {""} ELSE Range(text)

\* ArchiveReference.to_file_name(updated): "<name>_<updated>.zim".
to_file_name(ref, updated) == <<ref.name, updated>>

\* ArchiveEntry.to_reference
to_reference(e) == [name |-> e.name, language |-> e.language, flavour |-> e.flavor]

\* The parameter tuple insert_archive binds: one table row.
ToRow(a) ==
  [ name      |-> a.reference.name,
    language  |-> JoinSorted(a.reference.language),
    flavour   |-> a.reference.flavour,
    updated   |-> a.updated,
    file_name |-> a.file_name ]

\* ArchiveDetails.from_row
from_row(row) ==
  [ reference |-> [ name     |-> row.name,
                    language |-> SplitComma(row.language),
                    flavour  |-> row.flavour ],
    updated   |-> row.updated,
    file_name |-> row.file_name ]

\* ArchiveDetails values and the rows that hold them.
Details == { [reference |-> r, updated |-> u, file_name |-> to_file_name(r, u)] :
             r \in Refs, u \in Times }
Rows == { ToRow(a) : a \in Details }

\* ArchiveEntry values (the fields the planner reads).
Entries == { [name |-> r.name, language |-> r.language, flavor |-> r.flavour,
              updated |-> u] : r \in Refs, u \in Times }

\* PRIMARY KEY (name, language, flavour) of CREATE_TABLE: a UNIQUE constraint
\* in which NULLs are distinct, so only rows with a flavour are constrained.
PrimaryKeyOk(table) ==
  \A i, j \in DOMAIN table :
    ( i # j /\ table[i].flavour # NoFlavour
      /\ table[i].name = table[j].name
      /\ table[i].language = table[j].language
      /\ table[i].flavour = table[j].flavour ) => FALSE

\* DbManager.all_archives: SELECT * FROM archives, each row through from_row.
all_archives(table) == [i \in DOMAIN table |-> from_row(table[i])]

\* ------------------------------------------------------- installed-state store
\* "column = ?" in a WHERE clause: with NULL on either side the comparison is
\* not true.  Only flavour can be NULL (None).
SqlEq(column, param) ==
  column # NoFlavour /\ param # NoFlavour /\ column = param

\* The WHERE clause shared by DELETE_ARCHIVE and ARCHIVE_EXISTS, with the
\* parameters archive_exists and delete_archive bind.
Matches(row, ref, updated) ==
  /\ row.name = ref.name
  /\ row.language = JoinSorted(ref.language)
  /\ SqlEq(row.flavour, ref.flavour)
  /\ row.updated = updated

\* DbManager.archive_exists
archive_exists(t, ref, updated) ==
  \E i \in DOMAIN t : Matches(t[i], ref, updated)

\* DbManager.delete_archive
delete_archive(t, a) ==
  SelectSeq(t, LAMBDA row : ~Matches(row, a.reference, a.updated))

\* DbManager.insert_archive: INSERT raises sqlite3.IntegrityError when the
\* new row breaks the primary key, and appends the row otherwise.
InsertOk(t, a) == PrimaryKeyOk(Append(t, ToRow(a)))
insert_archive(t, a) == Append(t, ToRow(a))

\* The last operation: its name, its arguments and what it gave.
NoOp == [op |-> "none", arg |-> <<>>, result |-> "-"]
Op(name, arg, result) == [op |-> name, arg |-> arg, result |-> result]

\* The full key of an installed archive.
Key(a) == <<a.reference, a.updated>>

\* ------------------------------------------------------------ sync planner
\* get_new line 117: is the installed archive's reference a key of the map?
\* Faulty variant: a reference counts as subscribed only until it is mapped.
SubscribedM(r, archive_refs) == r \in DOMAIN archive_refs /\ archive_refs[r] = <<>>
Subscribed(r, archive_refs) == r \in DOMAIN archive_refs

\* get_new lines 113-120: the loop over current_archives.  archive_refs maps
\* each subscribed reference to <<>> (None) or <<details>>.
RECURSIVE ScanInstalled(_, _, _, _)
ScanInstalled(current_archives, i, archive_refs, to_delete) ==
  IF i > Len(current_archives)
  THEN [archive_refs |-> archive_refs, to_delete |-> to_delete]
  ELSE LET a == current_archives[i]
           r == a.reference
       IN  IF Subscribed(r, archive_refs)
           THEN ScanInstalled(current_archives, i + 1,
                              [archive_refs EXCEPT ![r] = <<a>>], to_delete)
           ELSE ScanInstalled(current_archives, i + 1,
                              archive_refs, Append(to_delete, a))

\* get_new lines 124-126: the union of the subscribed language sets.
LangUnion(archive_refs) == UNION {r.language : r \in DOMAIN archive_refs}

\* Downloader.search(lang): the entries of the server's response.  The
\* filtering by language happens on the server; the response is an input.
search(lang, response) == response

\* get_new line 132: the test that schedules entry e for download.
\* Faulty variants: a non-strict comparison; the None case dropped.
IsNewM(installed, e) == installed = <<>> \/ installed[1].updated <= e.updated
IsNewNoneM(installed, e) == installed # <<>> /\ installed[1].updated < e.updated
IsNew(installed, e) == installed = <<>> \/ installed[1].updated < e.updated

\* ArchiveManager.get_new
get_new(config_archives, table, response) ==
  LET scan == ScanInstalled(all_archives(table), 1,
                            [r \in Range(config_archives) |-> <<>>], <<>>)
      from_server == search(LangUnion(scan.archive_refs), response)
      new == SelectSeq(from_server,
                       LAMBDA e : /\ to_reference(e) \in DOMAIN scan.archive_refs
                                  /\ IsNew(scan.archive_refs[to_reference(e)], e))
  IN  [new |-> new, to_delete |-> scan.to_delete]

\* -------------------------------------------------------------- downloader
\* Paths are lists of name parts.  dst = os.path.join(archive_dir, file_name).
Dst == <<"archive.zim">>

\* try_mirror line 115: part_path = dst_path + ".part"
\* Faulty variant: the suffix is forgotten.
PartPathSame(dst_path) == dst_path
PartPath(dst_path) == Append(dst_path, ".part")

Paths == {Dst, PartPath(Dst)}

\* A file: absent, or the chunks written so far, the mirror they came from
\* and the content that mirror serves.
NoFile == [present |-> FALSE, chunks |-> 0, src |-> 0, content |-> "-"]
NewFile(m, c) == [present |-> TRUE, chunks |-> 0, src |-> m, content |-> c]

\* os.rename(src, dst) on a file system fs.
rename(fs, src, dst) ==
  IF src = dst THEN fs ELSE [fs EXCEPT ![dst] = fs[src], ![src] = NoFile]

\* download_archive line 148: sorted(meta.mirrors, key=priority).  sorted is
\* stable; a mirror is named by its position in the manifest.
\* Faulty variant: an insertion that puts m before its equals (unstable).
InsertUnstable(s, m, prio) ==
  SelectSeq(s, LAMBDA x : prio[x] < prio[m]) \o <<m>>
    \o SelectSeq(s, LAMBDA x : prio[x] >= prio[m])
Insert(s, m, prio) ==
  SelectSeq(s, LAMBDA x : prio[x] <= prio[m]) \o <<m>>
    \o SelectSeq(s, LAMBDA x : prio[x] > prio[m])

RECURSIVE SortedUpTo(_, _)
SortedUpTo(prio, n) ==
  IF n = 0 THEN <<>> ELSE Insert(SortedUpTo(prio, n - 1), n, prio)

sorted(prio) == SortedUpTo(prio, Len(prio))

\* Hash algorithms in verify's order of preference, and the manifest's
\* hash mappings: each expected digest is that of the genuine content or not.
Algos == <<"sha-256", "sha-1", "md5">>
Contents == {"genuine", "corrupt"}
HashMaps == UNION {[A -> Contents] : A \in SUBSET Range(Algos)}

\* hashlib.file_digest(f, hash_fn).hexdigest(): injective on the contents.
file_digest(content, algo) == content

\* Faulty variant: the weakest algorithm present is preferred.
verifyWeakest(content, hashes) ==
  LET present == SelectSeq(<<"md5", "sha-1", "sha-256">>,
                           LAMBDA a : a \in DOMAIN hashes)
  IN  IF present = <<>> THEN "ValueError"
      ELSE IF file_digest(content, present[1]) # hashes[present[1]]
           THEN "VerificationFailed"
           ELSE "ok"

\* Downloader.verify: the exception it raises, or "ok".
verify(content, hashes) ==
  LET present == SelectSeq(Algos, LAMBDA a : a \in DOMAIN hashes)
  IN  IF present = <<>> THEN "ValueError"
      ELSE IF file_digest(content, present[1]) # hashes[present[1]]
           THEN "VerificationFailed"
           ELSE "ok"

\* download_archive line 153: the value returned, an ArchiveDetails that
\* carries meta.file_name (the last part of the destination path).
NoResult == [type |-> "None", value |-> ""]
ReturnValue(dst) == [type |-> "ArchiveDetails", value |-> dst[Len(dst)]]

\* ------------------------------------------------------------------- state
VARIABLES
  archives,     \* config.archives: the subscription list
  table,        \* the rows of the archives table, in rowid order
  catalog,      \* the catalog response to the planner's search
  planned,      \* get_new has returned
  to_download,  \* first component of get_new's result
  to_delete,    \* second component of get_new's result
  files,        \* the names of the files in config.archive_dir
  live,         \* the (reference, updated) keys inserted and not since deleted
  last,         \* the last store or manager operation, its argument and result
  mirrors,      \* meta.mirrors: the priority of each mirror, manifest order
  hashes,       \* meta.hashes
  check_length, \* download_archive's check_length argument
  do_verify,    \* download_archive's verify argument
  pc,           \* position of download_archive
  order,        \* the sorted mirror list the loop iterates
  idx,          \* position of the loop in order
  fs,           \* the files at Dst and at its ".part" path
  attempts,     \* mirrors handed to try_mirror, in call order
  log,          \* how each ended try_mirror call ended
  streamed,     \* chunks written by this download_archive call
  outcome,      \* "running", "returned" or the exception raised
  verified,     \* what each call of self.verify did: "ok" or its exception
  result,       \* the value download_archive returned
  settings,     \* download_all's verify, check_length and quiet arguments
  behav,        \* how the mirror of each entry of the batch behaves
  tasks,        \* the download_archive call of each entry of the batch
  pool,         \* position of download_all
  late          \* what other downloads did after one download had failed

plan_vars == <<archives, table, catalog, planned, to_download, to_delete,
               files, live, last>>
dl_vars == <<mirrors, hashes, check_length, do_verify, pc, order, idx, fs,
             attempts, log, streamed, outcome, verified, result>>
pool_vars == <<settings, behav, tasks, pool, late>>
vars == <<plan_vars, dl_vars, pool_vars>>

PlanIdle ==
  /\ archives = <<>> /\ table = <<>> /\ catalog = <<>>
  /\ planned = FALSE /\ to_download = <<>> /\ to_delete = <<>>
  /\ files = {} /\ live = {} /\ last = NoOp

DlIdle ==
  /\ mirrors = <<>> /\ hashes = <<>> /\ check_length = TRUE /\ do_verify = TRUE
  /\ pc = "idle" /\ order = <<>> /\ idx = 0
  /\ fs = [p \in Paths |-> NoFile]
  /\ attempts = <<>> /\ log = <<>> /\ streamed = 0 /\ outcome = "running"
  /\ verified = <<>> /\ result = NoResult

PoolIdle ==
  /\ settings = [verify |-> TRUE, check_length |-> TRUE, quiet |-> FALSE]
  /\ behav = <<>> /\ tasks = <<>>
  /\ pool = [st |-> "idle", next |-> 0] /\ late = {}

InitPlan ==
  /\ archives \in BSeq(Refs, MaxSubs)
  /\ table \in {t \in BSeq(Rows, MaxRows) : PrimaryKeyOk(t)}
  /\ catalog \in BSeq(Entries, MaxEntries)
  /\ planned = FALSE
  /\ to_download = <<>>
  /\ to_delete = <<>>
  /\ files = {} /\ live = {} /\ last = NoOp
  /\ DlIdle /\ PoolIdle

\* ArchiveManager.get_new, run once on the drawn inputs.
GetNew ==
  /\ ~planned
  /\ LET res == get_new(archives, table, catalog)
     IN  /\ to_download' = res.new
         /\ to_delete' = res.to_delete
  /\ planned' = TRUE
  /\ UNCHANGED <<archives, table, catalog, files, live, last>>
  /\ UNCHANGED <<dl_vars, pool_vars>>

NextPlan == GetNew

SpecPlan == InitPlan /\ [][NextPlan]_vars

\* ------------------------------------------------------- store operations
InitDb ==
  /\ archives = <<>> /\ catalog = <<>>
  /\ planned = FALSE /\ to_download = <<>> /\ to_delete = <<>>
  /\ table = <<>> /\ files = {} /\ live = {} /\ last = NoOp
  /\ DlIdle /\ PoolIdle

\* DbManager.insert_archive(a)
DbInsert ==
  /\ Len(table) < MaxRows
  /\ \E a \in Details :
       IF InsertOk(table, a)
       THEN /\ table' = insert_archive(table, a)
            /\ live' = live \cup {Key(a)}
            /\ last' = Op("insert", <<a>>, "ok")
       ELSE /\ UNCHANGED <<table, live>>
            /\ last' = Op("insert", <<a>>, "IntegrityError")
  /\ UNCHANGED <<archives, catalog, planned, to_download, to_delete, files>>
  /\ UNCHANGED <<dl_vars, pool_vars>>

\* DbManager.delete_archive(a)
DbDelete ==
  /\ \E a \in Details :
       /\ table' = delete_archive(table, a)
       /\ live' = live \ {Key(a)}
       /\ last' = Op("delete", <<a>>, "ok")
  /\ UNCHANGED <<archives, catalog, planned, to_download, to_delete, files>>
  /\ UNCHANGED <<dl_vars, pool_vars>>

\* DbManager.archive_exists(ref, updated)
DbExists ==
  /\ \E a \in Details :
       last' = Op("exists", <<a>>,
                  IF archive_exists(table, a.reference, a.updated)
                  THEN "true" ELSE "false")
  /\ UNCHANGED <<archives, catalog, planned, to_download, to_delete, files,
                 table, live>>
  /\ UNCHANGED <<dl_vars, pool_vars>>

NextDb == DbInsert \/ DbDelete \/ DbExists

SpecDb == InitDb /\ [][NextDb]_vars

\* ------------------------------------------------- update, add_file, config
\* ArchiveMeta.file_name of the manifest of entry e: the name the server
\* gives the file of that version.
MetaFileName(e) == <<e.name, e.updated, e.flavor, JoinSorted(e.language)>>

\* download_archive line 153: the ArchiveDetails of a downloaded entry.
Downloaded(e) ==
  [reference |-> to_reference(e), updated |-> e.updated,
   file_name |-> MetaFileName(e)]

\* update lines 156-158: insert the downloaded archives one by one; the
\* first IntegrityError ends the loop with the earlier rows committed.
RECURSIVE InsertAll(_, _, _)
InsertAll(t, downloaded, i) ==
  IF i > Len(downloaded) THEN [table |-> t, ok |-> TRUE]
  ELSE IF InsertOk(t, downloaded[i])
       THEN InsertAll(insert_archive(t, downloaded[i]), downloaded, i + 1)
       ELSE [table |-> t, ok |-> FALSE]

\* update lines 163-168: delete the rows of the archives in ds.
RECURSIVE DeleteAll(_, _, _)
DeleteAll(t, ds, i) ==
  IF i > Len(ds) THEN t ELSE DeleteAll(delete_archive(t, ds[i]), ds, i + 1)

\* The catalog answers this run's searches with one list of entries, each
\* version listed once; nothing is installed yet.
InitUpdate ==
  /\ archives \in BSeq(Refs, MaxSubs)
  /\ catalog \in {c \in BSeq(Entries, MaxEntries) :
                    \A i, j \in DOMAIN c : i # j => c[i] # c[j]}
  /\ planned = FALSE /\ to_download = <<>> /\ to_delete = <<>>
  /\ table = <<>> /\ files = {} /\ live = {} /\ last = NoOp
  /\ DlIdle /\ PoolIdle

\* The file names of the archives in ds.
FileNames(ds) == {ds[i].file_name : i \in DOMAIN ds}

\* ArchiveManager.update, against the catalog's response to this run's
\* search.  proceed is the answer to the prompt; ok[i] tells whether the
\* download of the i-th planned entry succeeds.
update(proceed, ok) ==
  LET plan == get_new(archives, table, catalog)
      downloaded == [i \in DOMAIN plan.new |-> Downloaded(plan.new[i])]
      ins == InsertAll(table, downloaded, 1)
  IN  IF plan.new # <<>> /\ ~proceed
      THEN \* lines 152-154: the user declines, update returns
           [table |-> table, files |-> files,
            last |-> Op("update", plan.to_delete, "declined")]
      ELSE IF \E i \in DOMAIN ok : ~ok[i]
      THEN \* line 155: download_all raises; the other downloads of the
           \* batch have published their files
           [table |-> table,
            files |-> files \cup {downloaded[i].file_name :
                                    i \in {j \in DOMAIN ok : ok[j]}},
            last |-> Op("update", plan.to_delete, "DownloadError")]
      ELSE IF ~ins.ok
      THEN \* line 157: insert_archive raises
           [table |-> ins.table,
            files |-> files \cup FileNames(downloaded),
            last |-> Op("update", plan.to_delete, "IntegrityError")]
      ELSE \* lines 161-169: the deletions
           [table |-> DeleteAll(ins.table, plan.to_delete, 1),
            files |-> (files \cup FileNames(downloaded))
                        \ FileNames(plan.to_delete),
            last |-> Op("update", plan.to_delete, "completed")]

Update ==
  LET planned_new == get_new(archives, table, catalog).new
  IN  /\ Len(table) + Len(planned_new) <= MaxRows
      /\ \E proceed \in IF planned_new = <<>> THEN {TRUE} ELSE BOOLEAN :
         \E ok \in IF proceed THEN [DOMAIN planned_new -> BOOLEAN]
                              ELSE {[i \in DOMAIN planned_new |-> TRUE]} :
           LET after == update(proceed, ok)
           IN  /\ table' = after.table
               /\ files' = after.files
               /\ last' = after.last
      /\ UNCHANGED <<archives, catalog, planned, to_download, to_delete, live>>
      /\ UNCHANGED <<dl_vars, pool_vars>>

\* ArchiveManager.add_file(filepath, ref, date_created)
AddFile ==
  /\ Len(table) < MaxRows
  /\ \E ref \in Refs, date_created \in Times :
       LET archive == [reference |-> ref, updated |-> date_created,
                       file_name |-> to_file_name(ref, date_created)]
       IN  IF archive_exists(table, ref, date_created)
           THEN /\ last' = Op("add_file", <<>>, "ValueError")
                /\ UNCHANGED <<table, files, archives>>
           ELSE IF archive.file_name \in files
           THEN /\ last' = Op("add_file", <<>>, "FileExistsError")
                /\ UNCHANGED <<table, files, archives>>
           ELSE /\ files' = files \cup {archive.file_name}
                /\ IF InsertOk(table, archive)
                   THEN /\ table' = insert_archive(table, archive)
                        /\ archives' = IF ref \in Range(archives) THEN archives
                                       ELSE Append(archives, ref)
                        /\ last' = Op("add_file", <<>>, "ok")
                   ELSE /\ last' = Op("add_file", <<>>, "IntegrityError")
                        /\ UNCHANGED <<table, archives>>
  /\ UNCHANGED <<catalog, planned, to_download, to_delete, live>>
  /\ UNCHANGED <<dl_vars, pool_vars>>

\* Config.from_toml_file: a run starts from the config file as the user
\* last edited it.
Reconfigure ==
  /\ \E new \in BSeq(Refs, MaxSubs) : new # archives /\ archives' = new
  /\ last' = Op("config", <<>>, "ok")
  /\ UNCHANGED <<table, catalog, planned, to_download, to_delete, files, live>>
  /\ UNCHANGED <<dl_vars, pool_vars>>

NextUpdate == Update \/ AddFile \/ Reconfigure

SpecUpdate == InitUpdate /\ [][NextUpdate]_vars

\* ------------------------------------------------- download_archive, steps
InitDl ==
  /\ PlanIdle /\ PoolIdle
  /\ mirrors \in BSeq(1..MaxPrio, MaxMirrors)
  /\ hashes \in HashMaps
  /\ check_length \in BOOLEAN
  /\ do_verify \in BOOLEAN
  /\ pc = "start" /\ order = <<>> /\ idx = 0
  /\ fs = [p \in Paths |-> NoFile]
  /\ attempts = <<>> /\ log = <<>> /\ streamed = 0 /\ outcome = "running"
  /\ verified = <<>> /\ result = NoResult

\* The record of an ended try_mirror call: the mirror, how the call ended
\* and whether it had opened the ".part" file.
Ended(ev) == Append(log, [mirror |-> order[idx], ev |-> ev,
                          opened |-> fs[PartPath(Dst)].present])

\* download_archive lines 148-150 and 156: the loop takes mirror k of ord and
\* calls try_mirror, or the list is exhausted and DownloadError is raised.
Iterate(ord, k) ==
  /\ idx' = k
  /\ IF k <= Len(ord)
     THEN /\ attempts' = Append(attempts, ord[k])
          /\ pc' = IF check_length THEN "head" ELSE "get"
          /\ outcome' = outcome
     ELSE /\ attempts' = attempts
          /\ pc' = "done"
          /\ outcome' = "AllMirrorsFailed"

\* An exception that download_archive does not catch ends the call.
Raise(exc) == pc' = "done" /\ outcome' = exc /\ UNCHANGED <<idx, attempts>>

\* download_archive lines 154-155: MirrorDownloadFailed is caught and the loop
\* continues with the next mirror.
\* Faulty variant: the failure is not caught.
CatchFatal(ev) == Raise("DownloadError") /\ log' = Ended(ev)
Catch(ev) == Iterate(order, idx + 1) /\ log' = Ended(ev)

\* download_archive lines 145-148, up to the first try_mirror call.
Start ==
  /\ pc = "start"
  /\ order' = sorted(mirrors)
  /\ Iterate(order', 1)
  /\ UNCHANGED <<mirrors, hashes, check_length, do_verify, fs, log, streamed>>
  /\ UNCHANGED <<verified, result>>
  /\ UNCHANGED <<plan_vars, pool_vars>>

\* try_mirror line 105: requests.head raises (connection error, timeout).
HeadRaises ==
  /\ pc = "head"
  /\ Raise("RequestException") /\ log' = Ended("head_raised")
  /\ UNCHANGED <<mirrors, hashes, check_length, do_verify, order, fs, streamed>>
  /\ UNCHANGED <<verified, result>>
  /\ UNCHANGED <<plan_vars, pool_vars>>

\* try_mirror line 106: raise_for_status raises HTTPError on a 4xx/5xx reply.
HeadBadStatus ==
  /\ pc = "head"
  /\ Raise("RequestException") /\ log' = Ended("head_status")
  /\ UNCHANGED <<mirrors, hashes, check_length, do_verify, order, fs, streamed>>
  /\ UNCHANGED <<verified, result>>
  /\ UNCHANGED <<plan_vars, pool_vars>>

\* try_mirror lines 107-108: no Content-Length header.
HeadNoLength ==
  /\ pc = "head"
  /\ Catch("no_length")
  /\ UNCHANGED <<mirrors, hashes, check_length, do_verify, order, fs, streamed>>
  /\ UNCHANGED <<verified, result>>
  /\ UNCHANGED <<plan_vars, pool_vars>>

\* try_mirror lines 109-111: the declared size exceeds the free space.
\* Faulty variant: the shortfall is raised as a mirror-local failure.
DiskCheckLate(size) == pc = "head" /\ size > DiskFree /\ Catch("too_big")
DiskCheck(size) ==
  /\ pc = "head" /\ DiskFree < size
  /\ Raise("DiskSpace") /\ log' = Ended("too_big")

HeadTooBig ==
  /\ \E size \in 1..(DiskFree + 1) : DiskCheck(size)
  /\ UNCHANGED <<mirrors, hashes, check_length, do_verify, order, fs, streamed>>
  /\ UNCHANGED <<verified, result>>
  /\ UNCHANGED <<plan_vars, pool_vars>>

\* try_mirror lines 109-110: the declared size fits.
HeadFits ==
  /\ pc = "head"
  /\ \E size \in 1..(DiskFree + 1) : ~(DiskFree < size)
  /\ pc' = "get"
  /\ UNCHANGED <<mirrors, hashes, check_length, do_verify, order, idx, fs,
                 attempts, log, streamed, outcome>>
  /\ UNCHANGED <<verified, result>>
  /\ UNCHANGED <<plan_vars, pool_vars>>

\* try_mirror line 116: requests.get raises.
GetRaises ==
  /\ pc = "get"
  /\ Raise("RequestException") /\ log' = Ended("get_raised")
  /\ UNCHANGED <<mirrors, hashes, check_length, do_verify, order, fs, streamed>>
  /\ UNCHANGED <<verified, result>>
  /\ UNCHANGED <<plan_vars, pool_vars>>

\* try_mirror lines 117-118: the content response is not ok.
GetNotOk ==
  /\ pc = "get"
  /\ Catch("get_status")
  /\ UNCHANGED <<mirrors, hashes, check_length, do_verify, order, fs, streamed>>
  /\ UNCHANGED <<verified, result>>
  /\ UNCHANGED <<plan_vars, pool_vars>>

\* try_mirror lines 116-129: the response is ok and the ".part" file is
\* opened for writing (created or truncated).
GetOk ==
  /\ pc = "get"
  /\ \E c \in Contents :
       fs' = [fs EXCEPT ![PartPath(Dst)] = NewFile(order[idx], c)]
  /\ pc' = "stream"
  /\ UNCHANGED <<mirrors, hashes, check_length, do_verify, order, idx,
                 attempts, log, streamed, outcome>>
  /\ UNCHANGED <<verified, result>>
  /\ UNCHANGED <<plan_vars, pool_vars>>

\* try_mirror lines 130-131: one chunk arrives and is written.
StreamChunk ==
  /\ pc = "stream"
  /\ fs[PartPath(Dst)].chunks < TotalChunks
  /\ fs' = [fs EXCEPT ![PartPath(Dst)].chunks = @ + 1]
  /\ streamed' = streamed + 1
  /\ UNCHANGED <<mirrors, hashes, check_length, do_verify, pc, order, idx,
                 attempts, log, outcome>>
  /\ UNCHANGED <<verified, result>>
  /\ UNCHANGED <<plan_vars, pool_vars>>

\* try_mirror line 130: iter_content raises before the body is complete; the
\* with-block closes the file and the exception leaves try_mirror.
StreamRaises ==
  /\ pc = "stream"
  /\ fs[PartPath(Dst)].chunks < TotalChunks
  /\ Raise("RequestException") /\ log' = Ended("stream_raised")
  /\ UNCHANGED <<mirrors, hashes, check_length, do_verify, order, fs, streamed>>
  /\ UNCHANGED <<verified, result>>
  /\ UNCHANGED <<plan_vars, pool_vars>>

\* try_mirror lines 133-135 and download_archive lines 151, 153: the body is
\* complete, the file is renamed, and without verification the call returns.
Rename ==
  /\ pc = "stream"
  /\ fs[PartPath(Dst)].chunks = TotalChunks
  /\ fs' = rename(fs, PartPath(Dst), Dst)
  /\ log' = Ended("complete")
  /\ IF do_verify
     THEN pc' = "verify" /\ outcome' = outcome /\ result' = result
     ELSE pc' = "done" /\ outcome' = "returned" /\ result' = ReturnValue(Dst)
  /\ UNCHANGED <<mirrors, hashes, check_length, do_verify, order, idx,
                 attempts, streamed, verified>>
  /\ UNCHANGED <<plan_vars, pool_vars>>

\* Faulty variant: a failed verification falls back to the next mirror.
VerifyRetry ==
  /\ pc = "verify"
  /\ LET res == verify(fs[Dst].content, hashes)
     IN  /\ verified' = Append(verified, res)
         /\ IF res = "VerificationFailed"
            THEN Iterate(order, idx + 1) /\ result' = result
            ELSE /\ pc' = "done" /\ UNCHANGED <<idx, attempts>>
                 /\ outcome' = IF res = "ok" THEN "returned" ELSE res
                 /\ result' = IF res = "ok" THEN ReturnValue(Dst) ELSE result
  /\ UNCHANGED <<mirrors, hashes, check_length, do_verify, order, fs,
                 log, streamed>>
  /\ UNCHANGED <<plan_vars, pool_vars>>

\* download_archive lines 152-153: verify, then return or let it raise.
Verify ==
  /\ pc = "verify"
  /\ LET res == verify(fs[Dst].content, hashes)
     IN  /\ verified' = Append(verified, res)
         /\ outcome' = IF res = "ok" THEN "returned" ELSE res
         /\ result' = IF res = "ok" THEN ReturnValue(Dst) ELSE result
  /\ pc' = "done"
  /\ UNCHANGED <<mirrors, hashes, check_length, do_verify, order, idx, fs,
                 attempts, log, streamed>>
  /\ UNCHANGED <<plan_vars, pool_vars>>

NextDl ==
  \/ Start
  \/ HeadRaises
  \/ HeadBadStatus
  \/ HeadNoLength
  \/ HeadTooBig
  \/ HeadFits
  \/ GetRaises
  \/ GetNotOk
  \/ GetOk
  \/ StreamChunk
  \/ StreamRaises
  \/ Rename
  \/ Verify

SpecDl == InitDl /\ [][NextDl]_vars

\* ------------------------------------------------------ download_all, steps
\* The mirror side of one entry of the batch: what the HEAD probe answers,
\* whether the GET is ok, and whether the body has the expected digest.
Behaviours ==
  [head : {"ok", "nolength"}, get : {"ok", "notok"}, digest_ok : BOOLEAN]

Settings == [verify : BOOLEAN, check_length : BOOLEAN, quiet : BOOLEAN]

\* download_all lines 165-176: the arguments download_archive is called
\* with.  One entry: download_archive(entries[0], verify), the other
\* parameters at their defaults.  Several: download_archive(e, verify,
\* check_length, quiet, posn) in the pool.
Args(n, st) ==
  IF n = 1
  THEN [verify |-> st.verify, check_length |-> TRUE, quiet |-> FALSE]
  ELSE st

\* The versions 1..n of reference r, as a batch of entries.
Batch(r, n) ==
  [i \in 1..n |-> [name |-> r.name, language |-> r.language,
                   flavor |-> r.flavour, updated |-> i]]

Running == {"head", "get", "verify"}
Failed == \E i \in DOMAIN tasks : tasks[i].st = "raised"

\* The note of what task i does while another download has already failed.
Late(i, what) == IF Failed THEN late \cup {<<i, what>>} ELSE late

\* get_new has planned a batch for a subscribed reference with nothing
\* installed, and download_all is called with it.
InitAll ==
  /\ \E r \in Refs, n \in 1..MaxBatch :
       /\ archives = <<r>>
       /\ catalog = Batch(r, n)
       /\ to_download = Batch(r, n)
       /\ behav \in [1..n -> Behaviours]
  /\ planned = TRUE /\ to_delete = <<>>
  /\ table = <<>> /\ files = {} /\ live = {} /\ last = NoOp
  /\ DlIdle
  /\ settings \in Settings
  /\ tasks = [i \in DOMAIN to_download |->
                [st |-> "pending", steps |-> <<>>, exc |-> "-",
                 args |-> Args(Len(to_download), settings)]]
  /\ pool = [st |-> "running", next |-> 1]
  /\ late = {}

\* A step of task i: its new position, the steps it has performed, and the
\* exception it raised.
Step(i, st, done, exc) ==
  tasks' = [tasks EXCEPT ![i] =
              [@ EXCEPT !.st = st, !.steps = @ \o done, !.exc = exc]]

\* A worker (or, with one entry, download_all itself) begins
\* download_archive for entry i.
TaskStart(i) ==
  /\ tasks[i].st = "pending"
  /\ Step(i, IF tasks[i].args.check_length THEN "head" ELSE "get", <<>>, "-")
  /\ late' = Late(i, "start")
  /\ UNCHANGED <<settings, behav, pool>>
  /\ UNCHANGED <<plan_vars, dl_vars>>

\* try_mirror lines 104-111 for the entry's mirror; with no other mirror
\* left, MirrorDownloadFailed ends download_archive with DownloadError.
TaskHead(i) ==
  /\ tasks[i].st = "head"
  /\ IF behav[i].head = "ok"
     THEN Step(i, "get", <<"head">>, "-")
     ELSE Step(i, "raised", <<"head">>, "DownloadError")
  /\ UNCHANGED <<settings, behav, pool, late>>
  /\ UNCHANGED <<plan_vars, dl_vars>>

\* try_mirror lines 116-135: the transfer, with the progress bar unless
\* quiet, and the rename that publishes the file.
TaskGet(i) ==
  /\ tasks[i].st = "get"
  /\ LET bar == IF tasks[i].args.quiet THEN <<>> ELSE <<"bar">>
     IN  IF behav[i].get = "ok"
         THEN /\ Step(i, IF tasks[i].args.verify THEN "verify" ELSE "returned",
                      <<"get">> \o bar \o <<"rename">>, "-")
              /\ files' = files \cup {MetaFileName(to_download[i])}
              /\ late' = Late(i, "publish")
         ELSE /\ Step(i, "raised", <<"get">>, "DownloadError")
              /\ UNCHANGED <<files, late>>
  /\ UNCHANGED <<settings, behav, pool>>
  /\ UNCHANGED <<archives, table, catalog, planned, to_download, to_delete,
                 live, last>>
  /\ UNCHANGED dl_vars

\* download_archive lines 151-153.
TaskVerify(i) ==
  /\ tasks[i].st = "verify"
  /\ IF behav[i].digest_ok
     THEN Step(i, "returned", <<"verify">>, "-")
     ELSE Step(i, "raised", <<"verify">>, "VerificationFailed")
  /\ UNCHANGED <<settings, behav, pool, late>>
  /\ UNCHANGED <<plan_vars, dl_vars>>

\* download_all lines 168 and 173: the results are taken in entry order.  A
\* result that is an exception ends the iteration, which cancels the calls
\* no worker has begun.
Collect ==
  /\ pool.st = "running"
  /\ pool.next \in DOMAIN tasks
  /\ tasks[pool.next].st \in {"returned", "raised"}
  /\ IF tasks[pool.next].st = "returned"
     THEN /\ pool' = [pool EXCEPT !.next = @ + 1]
          /\ tasks' = tasks
     ELSE /\ pool' = [pool EXCEPT !.st = "raising"]
          /\ tasks' = [i \in DOMAIN tasks |->
                         IF tasks[i].st = "pending"
                         THEN [tasks[i] EXCEPT !.st = "cancelled"]
                         ELSE tasks[i]]
  /\ UNCHANGED <<settings, behav, late>>
  /\ UNCHANGED <<plan_vars, dl_vars>>

\* download_all returns the list; called by update (verify and check_length
\* at their defaults), update lines 156-158 insert the rows.
Return ==
  /\ pool.st = "running"
  /\ pool.next = Len(tasks) + 1
  /\ pool' = [pool EXCEPT !.st = "returned"]
  /\ LET downloaded == [i \in DOMAIN to_download |-> Downloaded(to_download[i])]
         ins == InsertAll(table, downloaded, 1)
     IN  IF settings.verify /\ settings.check_length
         THEN /\ table' = ins.table
              /\ last' = Op("update", <<>>,
                            IF ins.ok THEN "completed" ELSE "IntegrityError")
         ELSE /\ table' = table
              /\ last' = Op("download_all", <<>>, "returned")
  /\ UNCHANGED <<settings, behav, tasks, late>>
  /\ UNCHANGED <<archives, catalog, planned, to_download, to_delete, files,
                 live>>
  /\ UNCHANGED dl_vars

\* download_all line 172: leaving the with block waits for the calls that
\* are under way; then the exception reaches the caller, and update ends
\* with it.
Propagate ==
  /\ pool.st = "raising"
  /\ \A i \in DOMAIN tasks : tasks[i].st \notin Running
  /\ pool' = [pool EXCEPT !.st = "raised"]
  /\ last' = Op(IF settings.verify /\ settings.check_length
                THEN "update" ELSE "download_all",
                <<>>, tasks[pool.next].exc)
  /\ UNCHANGED <<settings, behav, tasks, late>>
  /\ UNCHANGED <<archives, table, catalog, planned, to_download, to_delete,
                 files, live>>
  /\ UNCHANGED dl_vars

NextAll ==
  \/ \E i \in DOMAIN tasks : TaskStart(i)
  \/ \E i \in DOMAIN tasks : TaskHead(i)
  \/ \E i \in DOMAIN tasks : TaskGet(i)
  \/ \E i \in DOMAIN tasks : TaskVerify(i)
  \/ Collect
  \/ Return
  \/ Propagate

SpecAll == InitAll /\ [][NextAll]_vars

\* ------------------------------------------------------ planner properties
SubscribedRefs == Range(archives)
InstalledAt(r) == {i \in DOMAIN table : from_row(table[i]).reference = r}

\* C1: the toDelete list holds every installed row whose reference is not
\* subscribed and no installed row whose reference is subscribed, however
\* many versions of a subscribed reference are installed.
C1_ToDeleteIsOrphans ==
  planned =>
    \A i \in DOMAIN table :
      LET a == from_row(table[i])
      IN  (a \in Range(to_delete)) <=> (a.reference \notin SubscribedRefs)

C1_Witness ==
  /\ planned
  /\ \E i \in DOMAIN table :
       /\ from_row(table[i]).reference \notin SubscribedRefs
       /\ from_row(table[i]) \in Range(to_delete)
  /\ \E r \in SubscribedRefs :
       /\ Cardinality(InstalledAt(r)) >= 2
       /\ \A i \in InstalledAt(r) : from_row(table[i]) \notin Range(to_delete)

\* C2: a catalog entry whose reference is subscribed and has exactly one
\* installed version, updated at U, is in toDownload iff its own updated is
\* strictly greater than U.
C2_DownloadIffNewer ==
  planned =>
    \A j \in DOMAIN catalog :
      LET e == catalog[j]
          r == to_reference(e)
      IN  (r \in SubscribedRefs /\ Cardinality(InstalledAt(r)) = 1) =>
            \A i \in InstalledAt(r) :
              (e \in Range(to_download)) <=> (e.updated > table[i].updated)

C2_Witness ==
  /\ planned
  /\ \E j, k \in DOMAIN catalog, r \in SubscribedRefs :
       /\ to_reference(catalog[j]) = r /\ to_reference(catalog[k]) = r
       /\ Cardinality(InstalledAt(r)) = 1
       /\ \A i \in InstalledAt(r) :
            /\ catalog[j].updated = table[i].updated
            /\ catalog[k].updated > table[i].updated
       /\ catalog[j] \notin Range(to_download)
       /\ catalog[k] \in Range(to_download)

\* C3: a catalog entry whose reference is subscribed and has no installed
\* version is in toDownload.
C3_DownloadIfNotInstalled ==
  planned =>
    \A j \in DOMAIN catalog :
      LET r == to_reference(catalog[j])
      IN  (r \in SubscribedRefs /\ InstalledAt(r) = {}) =>
            catalog[j] \in Range(to_download)

C3_Witness ==
  /\ planned
  /\ table # <<>>
  /\ \E j \in DOMAIN catalog :
       /\ to_reference(catalog[j]) \in SubscribedRefs
       /\ InstalledAt(to_reference(catalog[j])) = {}
       /\ catalog[j] \in Range(to_download)

\* --------------------------------------------------- downloader properties
\* Mirror a comes before mirror b in the attempt order the manifest fixes.
Before(a, b) ==
  mirrors[a] < mirrors[b] \/ (mirrors[a] = mirrors[b] /\ a < b)

\* C4: the mirrors are attempted one at a time, in ascending priority, equal
\* priorities in manifest order, none skipped and none twice, and no mirror
\* is attempted after the first whose transfer completed.
C4_AttemptOrder ==
  /\ \A i, j \in DOMAIN attempts : i < j => Before(attempts[i], attempts[j])
  /\ \A j \in DOMAIN attempts : \A m \in DOMAIN mirrors :
       Before(m, attempts[j]) => \E i \in 1..(j - 1) : attempts[i] = m
  /\ Len(attempts) - Len(log) \in {0, 1}
  /\ \A k \in DOMAIN log : log[k].ev = "complete" => k = Len(attempts)

C4_Witness ==
  /\ pc = "done"
  /\ Len(attempts) >= 2 /\ Len(attempts) < Len(mirrors)
  /\ log[Len(attempts)].ev = "complete"
  /\ attempts[1] # 1
  /\ \E i, j \in DOMAIN attempts :
       i < j /\ mirrors[attempts[i]] = mirrors[attempts[j]]

NetworkFailures ==
  {"head_raised", "head_status", "get_raised", "get_status", "stream_raised"}

\* C5: a network failure or a non-success status in the probe, the content
\* request or the streaming of a mirror does not abort download_archive:
\* the next mirror is attempted, and with none left all mirrors have failed.
C5_FailureContinues ==
  \A k \in DOMAIN log :
    log[k].ev \in NetworkFailures =>
      IF k < Len(order) THEN Len(attempts) > k
                        ELSE outcome = "AllMirrorsFailed"

\* C6: once a mirror attempt has ended in failure, no file is left at the
\* ".part" path.
C6_PartialDiscarded ==
  ( /\ log # <<>>
    /\ Len(log) = Len(attempts)
    /\ log[Len(log)].ev # "complete" ) => ~fs[PartPath(Dst)].present

\* C7: a file at the final path is a complete body, put there by the rename
\* that followed the complete stream of a mirror.
C7_FinalOnlyComplete ==
  fs[Dst].present =>
    /\ fs[Dst].chunks = TotalChunks
    /\ \E k \in DOMAIN log :
         log[k].ev = "complete" /\ log[k].mirror = fs[Dst].src

C7_Witness ==
  /\ fs[Dst].present
  /\ ~fs[PartPath(Dst)].present
  /\ streamed = TotalChunks
  /\ Len(log) >= 2

\* C8: with the size check on, a probe that declares more than the free
\* space ends download_archive with the disk-space error: no later mirror
\* is attempted, nothing was streamed and no ".part" file was created.
C8_DiskSpaceIsFatal ==
  \A k \in DOMAIN log :
    log[k].ev = "too_big" =>
      /\ check_length
      /\ pc = "done" /\ outcome = "DiskSpace"
      /\ k = Len(attempts)
      /\ streamed = 0
      /\ ~fs[PartPath(Dst)].present
      /\ \A h \in 1..k : ~log[h].opened

C8_Witness ==
  /\ Len(log) >= 2
  /\ log[Len(log)].ev = "too_big"
  /\ Len(log) < Len(order)
  /\ outcome = "DiskSpace"

\* C9: with the size check on, a probe without a declared content length
\* fails that mirror only: no ".part" file was created for it and the next
\* mirror is attempted (with none left, all mirrors have failed).
C9_NoLengthIsMirrorLocal ==
  \A k \in DOMAIN log :
    log[k].ev = "no_length" =>
      /\ check_length
      /\ ~log[k].opened
      /\ IF k < Len(order)
         THEN Len(attempts) > k /\ attempts[k + 1] = order[k + 1]
         ELSE outcome = "AllMirrorsFailed"

C9_Witness ==
  /\ Len(log) >= 2
  /\ log[1].ev = "no_length"
  /\ log[2].ev = "complete"
  /\ outcome = "returned"

\* C10: when every mirror has been tried and none completed a transfer
\* (the disk-space abort aside), download_archive has failed with the
\* all-mirrors-failed error.
C10_ExhaustedIsAllMirrorsFailed ==
  ( /\ pc = "done"
    /\ Len(log) = Len(order)
    /\ \A k \in DOMAIN log : log[k].ev \notin {"complete", "too_big"} )
  => outcome = "AllMirrorsFailed"

\* C11: when the file of the first mirror that completed a transfer fails
\* verification, download_archive has ended with VerificationFailed and no
\* further mirror was attempted; verify is called at most once per call.
C11_VerificationFailureIsFatal ==
  /\ Len(verified) <= 1
  /\ (verified # <<>> /\ verified[1] = "VerificationFailed") =>
       /\ pc = "done" /\ outcome = "VerificationFailed"
       /\ Len(log) = Len(attempts)
       /\ \A k \in DOMAIN log : log[k].ev = "complete" <=> k = Len(attempts)

C11_Witness ==
  /\ verified = <<"VerificationFailed">>
  /\ Len(attempts) >= 2
  /\ Len(attempts) < Len(order)
  /\ pc = "done"

\* The first of sha-256, sha-1, md5 that is a key of the mapping h.
FirstSupported(h) ==
  IF "sha-256" \in DOMAIN h THEN "sha-256"
  ELSE IF "sha-1" \in DOMAIN h THEN "sha-1"
  ELSE IF "md5" \in DOMAIN h THEN "md5"
  ELSE "none"

\* C12: verify uses the first of sha-256, sha-1, md5 present in the hash
\* mapping and nothing else: it succeeds iff the file's digest under that
\* algorithm is the expected one, otherwise raises VerificationFailed, and
\* with none of the three present raises the no-supported-hash error.
C12_VerifyUsesStrongest ==
  verified # <<>> =>
    LET a == FirstSupported(hashes)
    IN  IF a = "none"
        THEN verified[1] = "ValueError"
        ELSE IF hashes[a] = file_digest(fs[Dst].content, a)
             THEN verified[1] = "ok"
             ELSE verified[1] = "VerificationFailed"

C12_Witness ==
  /\ verified = <<"ok">>
  /\ DOMAIN hashes = {"sha-1", "md5"}
  /\ hashes["md5"] # file_digest(fs[Dst].content, "md5")

\* C13: a successful download_archive(entry, verify=True) returns the path
\* of the downloaded file, and a file exists at that path.
C13_ReturnsPath ==
  (outcome = "returned" /\ do_verify) =>
    /\ result.type = "str"
    /\ result.value = Dst
    /\ fs[Dst].present

\* --------------------------------------------------------- store properties
\* C14: exists(reference, updated) is true iff a row with exactly that
\* (name, language, flavour, updated) was inserted and not since deleted,
\* also for a reference without flavour.
C14_ExistsIffInserted ==
  last.op = "exists" =>
    (last.result = "true" <=> Key(last.arg[1]) \in live)

\* C15: the rows all() returns are those inserted and not since deleted:
\* delete(details) removes the row with exactly that key, also when the
\* flavour is absent, and no other row.
C15_DeleteRemovesExactly ==
  {Key(all_archives(table)[i]) : i \in DOMAIN table} = live

\* C16: insert makes no duplicate check: it succeeds, also for a reference
\* that already has a row with another updated, and the new row is present
\* beside the old ones.
C16_InsertNonUnique ==
  last.op = "insert" =>
    /\ last.result = "ok"
    /\ ToRow(last.arg[1]) \in Range(table)

\* ------------------------------------------------------- manager properties
\* The planner's result on the current state.
Replan == get_new(archives, table, catalog)

\* C17: after an update in which every planned download succeeded and was
\* inserted, the planner run again on the same catalog response plans no
\* download.
C17_UpdateThenNothingToDownload ==
  (last.op = "update" /\ last.result = "completed") => Replan.new = <<>>

\* The greatest updated among the installed versions of reference r.
NewestInstalled(r) ==
  CHOOSE u \in {table[i].updated : i \in InstalledAt(r)} :
    \A i \in InstalledAt(r) : table[i].updated <= u

\* C18: with several versions of a subscribed reference installed, an entry
\* is compared with the greatest installed updated, whatever the order of
\* the rows.
C18_ComparesWithNewest ==
  planned =>
    \A j \in DOMAIN catalog :
      LET r == to_reference(catalog[j])
      IN  (r \in SubscribedRefs /\ InstalledAt(r) # {}) =>
            ( catalog[j] \in Range(to_download)
                <=> catalog[j].updated > NewestInstalled(r) )

\* C19: the store never holds two rows with the same
\* (name, language, flavour, updated).
C19_FullKeyUnique ==
  \A i, j \in DOMAIN table :
    i # j => Key(from_row(table[i])) # Key(from_row(table[j]))

\* C20: after an update that ran to its end, every installed row has a
\* subscribed reference and the file of every orphaned archive is gone.
C20_NoOrphansAfterUpdate ==
  (last.op = "update" /\ last.result = "completed") =>
    /\ \A i \in DOMAIN table : from_row(table[i]).reference \in SubscribedRefs
    /\ \A k \in DOMAIN last.arg : last.arg[k].file_name \notin files

\* The positions in t of the rows of reference r.
RowsOf(t, r) == {i \in DOMAIN t : from_row(t[i]).reference = r}

\* C21: when an update that runs to its end downloads a newer version of a
\* reference that had an installed version, the store afterwards holds one
\* row for that reference, newer than every row it held before.
C21_SupersededDeleted ==
  [][ (last'.op = "update" /\ last'.result = "completed") =>
        \A j \in DOMAIN Replan.new :
          LET r == to_reference(Replan.new[j])
          IN  InstalledAt(r) # {} =>
                \E i \in RowsOf(table', r) :
                  /\ RowsOf(table', r) = {i}
                  /\ \A k \in InstalledAt(r) :
                       table[k].updated < table'[i].updated ]_vars

\* C24: with verification enabled, once download_archive has ended, a file
\* this call published at the final path has passed verification.
C24_PublishedIsVerified ==
  (pc = "done" /\ do_verify /\ fs[Dst].present) => verified = <<"ok">>

\* C25: when an update or add_file has ended, the rows and the archive files
\* correspond one to one: every row names a file that is present, no two
\* rows name the same file, and every file has a row.
C25_RowsMatchFiles ==
  last.op \in {"update", "add_file"} =>
    /\ \A i \in DOMAIN table : table[i].file_name \in files
    /\ \A i, j \in DOMAIN table :
         table[i].file_name = table[j].file_name => i = j
    /\ \A f \in files : \E i \in DOMAIN table : table[i].file_name = f

\* ------------------------------------------------- download_all properties
\* C22: in a batch of more than one archive, download_all does not return
\* when a download has failed; and when it has ended with the failure, no
\* other download of the batch was begun or published its file after that
\* failure, and update has inserted no row.
C22_FailureHaltsBatch ==
  Len(tasks) > 1 =>
    /\ pool.st = "returned" => ~Failed
    /\ pool.st = "raised" => (late = {} /\ table = <<>>)

\* C23: the inline path and the pool path apply the caller's settings alike:
\* in either, an ended download has probed the length iff check_length was
\* asked, has shown the progress bar iff quiet was not, and has verified the
\* file it published iff verify was asked.
C23_SameOnBothPaths ==
  \A i \in DOMAIN tasks :
    tasks[i].st \in {"returned", "raised"} =>
      LET did == Range(tasks[i].steps)
      IN  /\ "head" \in did <=> settings.check_length
          /\ "rename" \in did => ("bar" \in did <=> ~settings.quiet)
          /\ "rename" \in did => ("verify" \in did <=> settings.verify)

====
